---- MODULE Spec2Model ----
(***************************************************************************)
(* Sales-bonus report: analyzeSalesData with its two policy functions,     *)
(* calculateSimpleRevenue and calculateBonusByProfit.                      *)
(*                                                                         *)
(* The repository holds two versions of the program: src/src/main.js,      *)
(* which accepts a missing or empty products / purchase_records           *)
(* ("lenient"), and src/unnamed/part_000, which rejects them ("strict").   *)
(* The variable `variant` says which one runs.                             *)
(*                                                                         *)
(* Numbers.  Money is held as an integer number of 1/10000 of the currency *)
(* unit, so a cent is 100 and toFixed(2) rounds to a multiple of 100.      *)
(* Input prices are whole cents and discounts whole percents, so every     *)
(* revenue, profit and bonus the program forms is exact in this unit       *)
(* (binary floating point is not modelled).  A JavaScript                  *)
(* value that may fail to be a number (total_amount, revenue) is <<n>> for *)
(* the number n and <<>> for undefined / NaN: the program only uses such a *)
(* value in `v || 0` and in `x + v`, where undefined and NaN act alike.    *)
(***************************************************************************)
EXTENDS Integers, Sequences, FiniteSets

VARIABLES
    variant,      \* "lenient" (src/src/main.js) or "strict" (src/unnamed/part_000)
    pc,           \* "start", "fold", "done" (report returned), "error" (thrown)
    data,         \* first argument of analyzeSalesData
    options,      \* second argument of analyzeSalesData
    sellerStats,  \* the accumulators, one per seller
    ri,           \* number of purchase records the forEach has handled
    calls,        \* the items calculateRevenue was invoked with, in order
    report,       \* the returned array (<<>> until returned)
    thrown,       \* "none", or which check threw: "data" or "options"
    bonusCall     \* one call of calculateBonusByProfit: arguments and result

vars == <<variant, pc, data, options, sellerStats, ri, calls, report, thrown,
          bonusCall>>

(***************************************************************************)
(* Bounds of the model.                                                    *)
(***************************************************************************)
\* sellers + purchase records + line items of one input, in total
MaxSize == 5
\* SKUs in the product catalogue (more than the top-products cut keeps)
NumSkus == 12
\* bulk orders (one line per catalogue SKU of a range) in one input
MaxBulk == 2
\* largest seller count calculateBonusByProfit is called with on its own
MaxTotal == 6

(***************************************************************************)
(* Program constants.                                                      *)
(***************************************************************************)
\* toFixed(2): two decimals, i.e. multiples of 100 model units
Cent == 100
\* slice(0, 10)
TopLimit == 10
\* discount / 100
PercentBase == 100
\* profit * 0.15, profit * 0.1, profit * 0.05
TopRate == 15
NextRate == 10
MiddleRate == 5

(***************************************************************************)
(* JavaScript values that may not be numbers.                              *)
(***************************************************************************)
NaN == <<>>
Num(n) == <<n>>
IsNum(v) == Len(v) = 1
\* x + v
JsAdd(x, v) == IF IsNum(x) /\ IsNum(v) THEN Num(x[1] + v[1]) ELSE NaN
\* v || 0  (undefined, NaN and 0 are falsy)
OrZero(v) == IF IsNum(v) THEN v ELSE Num(0)

\* n rounded to the nearest multiple of Cent, halves away from zero
RoundCent(n) ==
    IF n >= 0 THEN ((n + Cent \div 2) \div Cent) * Cent
    ELSE -(((-n + Cent \div 2) \div Cent) * Cent)
\* +(v.toFixed(2)); NaN.toFixed(2) is "NaN"
ToFixed2(v) == IF IsNum(v) THEN Num(RoundCent(v[1])) ELSE NaN

(***************************************************************************)
(* calculateSimpleRevenue(purchase, _product)                              *)
(***************************************************************************)
calculateSimpleRevenue(purchase, product) ==
    IF purchase.discount # 0 /\ purchase.discount > 0
    THEN (purchase.sale_price * purchase.quantity
            * (PercentBase - purchase.discount)) \div PercentBase
    ELSE purchase.sale_price * purchase.quantity

(***************************************************************************)
(* calculateBonusByProfit(index, total, seller)                            *)
(***************************************************************************)
\* a slip that tests the last place before the second and third places
calculateBonusLastFirst(index, total, seller) ==
    IF index = 0 THEN (seller.profit * TopRate) \div PercentBase
    ELSE IF index = total - 1 THEN 0
    ELSE IF index < 3 THEN (seller.profit * NextRate) \div PercentBase
    ELSE (seller.profit * MiddleRate) \div PercentBase

\* a slip that forgets the last-place rule
calculateBonusNoLast(index, total, seller) ==
    IF index = 0 THEN (seller.profit * TopRate) \div PercentBase
    ELSE IF index < 3 THEN (seller.profit * NextRate) \div PercentBase
    ELSE (seller.profit * MiddleRate) \div PercentBase

calculateBonusByProfit(index, total, seller) ==
    IF index = 0 THEN (seller.profit * TopRate) \div PercentBase
    ELSE IF index < 3 THEN (seller.profit * NextRate) \div PercentBase
    ELSE IF index = total - 1 THEN 0
    ELSE (seller.profit * MiddleRate) \div PercentBase

(***************************************************************************)
(* Input values.  A property that may be an array, something else or       *)
(* missing is [kind, elems]; SKUs stand for strings such as "SKU_001"      *)
(* (not array indices, so an object keeps them in insertion order).        *)
(***************************************************************************)
Unit == Cent * Cent
SalePrice == 3 * Unit
PurchasePrice(sku) == IF sku % 2 = 1 THEN Unit ELSE (5 * Unit) \div 2
UnknownSku == NumSkus + 1

Arr(s) == [kind |-> "array", elems |-> s]
Absent == [kind |-> "absent", elems |-> <<>>]
NotArr == [kind |-> "other", elems |-> <<>>]

\* data.sellers with n sellers: ids n, n-1, ..., 1 (names play no part)
SellerList(n) == [k \in 1..n |-> [id |-> n + 1 - k]]
\* data.products: SKUs 1..NumSkus
Catalogue == [k \in 1..NumSkus |-> [sku |-> k, purchase_price |-> PurchasePrice(k)]]

Item(s, q, d) == [sku |-> s, quantity |-> q, discount |-> d, sale_price |-> SalePrice]
ItemSkus == {1, 2, UnknownSku}
\* single units at the full price, and SKU 2 also in pairs at 20 percent off
\* (below its purchase price)
ItemSet ==
    {Item(s, 1, 0) : s \in ItemSkus} \cup {Item(2, 2, 20)}
\* record.total_amount: missing, or 5 currency units
Totals == {NaN, Num(5 * Unit)}
Record(id, t, items) == [seller_id |-> id, total_amount |-> t, items |-> items]

\* the item counts of the records of one purchase_records: every sequence
\* of counts with at most `budget` records and line items in total
RECURSIVE ItemCounts(_)
ItemCounts(budget) ==
    IF budget <= 0 THEN {<<>>}
    ELSE {<<>>} \cup UNION {
            { <<n>> \o rest : rest \in ItemCounts(budget - 1 - n) } :
            n \in 0..(budget - 1) }

RECURSIVE SumSeq(_)
SumSeq(s) == IF s = <<>> THEN 0 ELSE Head(s) + SumSeq(Tail(s))

\* the records with item counts `counts`, seller ids and totals `heads`,
\* and the line items `flat` dealt out to them in order
RecordsOf(counts, heads, flat) ==
    [i \in 1..Len(counts) |->
        LET before == SumSeq(SubSeq(counts, 1, i - 1))
        IN  Record(heads[i][1], heads[i][2],
                   SubSeq(flat, before + 1, before + counts[i]))]

Object(s, p, r) == [kind |-> "object", sellers |-> s, products |-> p,
                    purchase_records |-> r]
Missing == [kind |-> "missing", sellers |-> Absent, products |-> Absent,
            purchase_records |-> Absent]

Options(rev, bon) == [kind |-> "object", calculateRevenue |-> rev,
                      calculateBonus |-> bon]
\* the revenue policies a caller supplies here: the repository's own, and
\* one that reads the product instead (cost plus one currency unit per line)
RevenuePolicies == {"calculateSimpleRevenue", "costPlus"}
BonusPolicies == {"calculateBonusByProfit"}
IsFunction(f) == f \in RevenuePolicies \cup BonusPolicies

\* an input with valid options and the catalogue: ns sellers and the given
\* records; a record's seller id is one of 1..ns or the unknown ns + 1
SmallInput(ns, rs, rev) ==
    [data |-> Object(Arr(SellerList(ns)), Arr(Catalogue), Arr(rs)),
     options |-> Options(rev, "calculateBonusByProfit")]

\* inputs of every shape the validation tells apart
SampleRecords == <<Record(1, Num(5 * Unit), <<Item(1, 1, 0)>>)>>
OptionShapes ==
    { [kind |-> k, calculateRevenue |-> "absent", calculateBonus |-> "absent"] :
        k \in {"missing", "other"} }
    \cup { Options(rev, bon) :
            rev \in {"absent", "other", "calculateSimpleRevenue"},
            bon \in {"absent", "other", "calculateBonusByProfit"} }
DataShapes ==
    {Missing} \cup
    { Object(s, p, r) :
        s \in {Absent, NotArr, Arr(<<>>), Arr(SellerList(1))},
        p \in {Absent, NotArr, Arr(<<>>), Arr(Catalogue)},
        r \in {Absent, NotArr, Arr(<<>>), Arr(SampleRecords)} }
ShapeInputs == { [data |-> d, options |-> o] : d \in DataShapes, o \in OptionShapes }

\* bulk orders: one line per SKU of a range of the catalogue, in catalogue
\* order or backwards, quantities 1..3 by SKU
BulkQuantity(sku, m) == ((sku * m) % 3) + 1
BulkItems(from, to, m, up) ==
    [k \in 1..(to - from + 1) |->
        LET sku == IF up THEN from + k - 1 ELSE to - k + 1
        IN  Item(sku, BulkQuantity(sku, m), 0)]
BulkOrders ==
    { Record(id, Num(5 * Unit), BulkItems(r[1], r[2], m, up)) :
        id \in 1..2,
        r \in {<<1, NumSkus>>, <<NumSkus \div 2, NumSkus>>},
        m \in 1..2, up \in BOOLEAN }
WideInputs ==
    { [data |-> Object(Arr(SellerList(2)), Arr(Catalogue), Arr(rs)),
       options |-> Options("calculateSimpleRevenue", "calculateBonusByProfit")] :
        rs \in UNION {[1..n -> BulkOrders] : n \in 1..MaxBulk} }

OtherInputs == ShapeInputs \cup WideInputs

(***************************************************************************)
(* analyzeSalesData: validation.                                           *)
(***************************************************************************)
NonEmptyArray(a) == a.kind = "array" /\ Len(a.elems) > 0

\* the first `if`: main.js tests data and sellers, part_000 also products
\* and purchase_records
DataValid(v, d) ==
    /\ d.kind = "object"
    /\ NonEmptyArray(d.sellers)
    /\ v = "strict" => NonEmptyArray(d.products) /\ NonEmptyArray(d.purchase_records)

\* a slip that forgets to test calculateBonus
OptionsValidRevenueOnly(o) ==
    /\ o.kind = "object"
    /\ o.calculateRevenue # "absent"
    /\ IsFunction(o.calculateRevenue)

\* the second `if`
OptionsValid(o) ==
    /\ o.kind = "object"
    /\ o.calculateBonus # "absent"
    /\ o.calculateRevenue # "absent"
    /\ IsFunction(o.calculateRevenue)
    /\ IsFunction(o.calculateBonus)

(***************************************************************************)
(* analyzeSalesData: accumulators and indexes.                             *)
(***************************************************************************)
\* data.sellers.map(...): products_sold is the object's entries, in
\* insertion order
MakeStats(sellers) ==
    [k \in 1..Len(sellers) |->
        [seller_id |-> sellers[k].id, revenue |-> Num(0), profit |-> 0,
         sales_count |-> 0, products_sold |-> <<>>]]

\* sellerIndex[id]: the accumulator's place in stats, 0 for undefined
SellerPos(stats, id) ==
    LET hits == {k \in 1..Len(stats) : stats[k].seller_id = id}
    IN  IF hits = {} THEN 0 ELSE CHOOSE k \in hits : \A j \in hits : j <= k

\* the products productIndex is built from (none when products is no array)
ProductList(d) == IF d.products.kind = "array" THEN d.products.elems ELSE <<>>

\* productIndex[sku]: the product's place in the list, 0 for undefined
ProductPos(prods, sku) ==
    LET hits == {k \in 1..Len(prods) : prods[k].sku = sku}
    IN  IF hits = {} THEN 0 ELSE CHOOSE k \in hits : \A j \in hits : j <= k

\* the records the forEach runs over (none when purchase_records is no array)
RecordList(d) ==
    IF d.purchase_records.kind = "array" THEN d.purchase_records.elems ELSE <<>>

(***************************************************************************)
(* analyzeSalesData: the fold over purchase records.                       *)
(***************************************************************************)
\* options.calculateRevenue(item, product)
Revenue(rev, item, product) ==
    IF rev = "calculateSimpleRevenue" THEN calculateSimpleRevenue(item, product)
    ELSE product.purchase_price * item.quantity + Unit

\* a slip that forgets the cost
ItemProfitNoCost(rev, item, product) == Revenue(rev, item, product)

\* revenue - cost of one line
ItemProfit(rev, item, product) ==
    LET cost == product.purchase_price * item.quantity
        revenue == Revenue(rev, item, product)
    IN  revenue - cost

\* products_sold[sku] += quantity, the key created with 0 when missing
AddSold(sold, sku, quantity) ==
    LET hits == {k \in 1..Len(sold) : sold[k].sku = sku}
    IN  IF hits = {}
        THEN Append(sold, [sku |-> sku, quantity |-> 0 + quantity])
        ELSE [k \in 1..Len(sold) |->
                IF k \in hits THEN [sold[k] EXCEPT !.quantity = @ + quantity]
                ELSE sold[k]]

\* the body of record.items.forEach for one item; st is [seller, calls]
ItemStep(rev, prods, st, item) ==
    LET p == ProductPos(prods, item.sku)
    IN  IF p = 0 THEN st
        ELSE [seller |-> [st.seller EXCEPT
                            !.profit = @ + ItemProfit(rev, item, prods[p]),
                            !.products_sold = AddSold(@, item.sku, item.quantity)],
              calls |-> Append(st.calls, item)]

\* a slip that leaves the loop at the first unknown SKU
RECURSIVE ForEachItemBreak(_, _, _, _)
ForEachItemBreak(rev, prods, st, items) ==
    IF items = <<>> \/ ProductPos(prods, Head(items).sku) = 0 THEN st
    ELSE ForEachItemBreak(rev, prods, ItemStep(rev, prods, st, Head(items)),
                          Tail(items))

\* record.items.forEach(...)
RECURSIVE ForEachItem(_, _, _, _)
ForEachItem(rev, prods, st, items) ==
    IF items = <<>> THEN st
    ELSE ForEachItem(rev, prods, ItemStep(rev, prods, st, Head(items)),
                     Tail(items))

\* seller.revenue += record.total_amount || 0   (main.js)
\* seller.revenue += record.total_amount        (part_000)
AddTotal(v, revenue, total_amount) ==
    IF v = "lenient" THEN JsAdd(revenue, OrZero(total_amount))
    ELSE JsAdd(revenue, total_amount)

\* a slip that books a record of an unknown seller on the first seller
RecordStepNoSkip(v, rev, prods, st, record) ==
    LET found == SellerPos(st.stats, record.seller_id)
        pos == IF found = 0 THEN 1 ELSE found
        seller == [st.stats[pos] EXCEPT
                    !.sales_count = @ + 1,
                    !.revenue = AddTotal(v, @, record.total_amount)]
        after == ForEachItem(rev, prods, [seller |-> seller, calls |-> st.calls],
                             record.items)
    IN  [stats |-> [st.stats EXCEPT ![pos] = after.seller], calls |-> after.calls]

\* the body of purchase_records.forEach for one record; st is [stats, calls]
RecordStep(v, rev, prods, st, record) ==
    LET pos == SellerPos(st.stats, record.seller_id)
    IN  IF pos = 0 THEN st
        ELSE LET seller == [st.stats[pos] EXCEPT
                                !.sales_count = @ + 1,
                                !.revenue = AddTotal(v, @, record.total_amount)]
                 after == ForEachItem(rev, prods,
                                      [seller |-> seller, calls |-> st.calls],
                                      record.items)
             IN  [stats |-> [st.stats EXCEPT ![pos] = after.seller],
                  calls |-> after.calls]

(***************************************************************************)
(* analyzeSalesData: sorting, bonus, top products, report.                 *)
(***************************************************************************)
\* Array.prototype.sort with the comparator (a, b) => b[field] - a[field]:
\* a stable sort; x moves ahead of e exactly when the comparator is positive
RECURSIVE InsertDesc(_, _, _)
InsertDesc(sorted, x, field) ==
    IF sorted = <<>> THEN <<x>>
    ELSE IF x[field] - Head(sorted)[field] > 0 THEN <<x>> \o sorted
    ELSE <<Head(sorted)>> \o InsertDesc(Tail(sorted), x, field)

RECURSIVE StableSortDesc(_, _)
StableSortDesc(s, field) ==
    IF s = <<>> THEN <<>>
    ELSE InsertDesc(StableSortDesc(SubSeq(s, 1, Len(s) - 1), field),
                    s[Len(s)], field)

\* slips: an ascending comparator; a sort that puts a later equal element first
RECURSIVE InsertAsc(_, _, _)
InsertAsc(sorted, x, field) ==
    IF sorted = <<>> THEN <<x>>
    ELSE IF Head(sorted)[field] - x[field] > 0 THEN <<x>> \o sorted
    ELSE <<Head(sorted)>> \o InsertAsc(Tail(sorted), x, field)

RECURSIVE SortSellersAscending(_)
SortSellersAscending(stats) ==
    IF stats = <<>> THEN <<>>
    ELSE InsertAsc(SortSellersAscending(SubSeq(stats, 1, Len(stats) - 1)),
                   stats[Len(stats)], "profit")

\* [...sellerStats].sort((a, b) => b.profit - a.profit)
SortSellers(stats) == StableSortDesc(stats, "profit")

\* .slice(0, 10)
Slice10(s) == SubSeq(s, 1, IF Len(s) < TopLimit THEN Len(s) ELSE TopLimit)

\* a slip that cuts before it sorts
TopProductsCutFirst(sold) == StableSortDesc(Slice10(sold), "quantity")

\* Object.entries(products_sold).map(...).sort(by quantity).slice(0, 10)
TopProducts(sold) == Slice10(StableSortDesc(sold, "quantity"))

\* options.calculateBonus(index, total, seller)
Bonus(bon, index, total, seller) == calculateBonusByProfit(index, total, seller)

\* sortedSellers.map(...) after the bonus and top_products loop
BuildReport(o, stats) ==
    LET sorted == SortSellers(stats)
        total == Len(sorted)
    IN  [k \in 1..total |->
            [seller_id |-> sorted[k].seller_id,
             revenue |-> ToFixed2(sorted[k].revenue),
             profit |-> RoundCent(sorted[k].profit),
             sales_count |-> sorted[k].sales_count,
             top_products |-> TopProducts(sorted[k].products_sold),
             bonus |-> RoundCent(Bonus(o.calculateBonus, k - 1, total, sorted[k]))]]

\* the state of the fold after the first n records
RECURSIVE FoldRecords(_, _, _, _)
FoldRecords(v, d, o, n) ==
    IF n = 0 THEN [stats |-> MakeStats(d.sellers.elems), calls |-> <<>>]
    ELSE RecordStep(v, o.calculateRevenue, ProductList(d),
                    FoldRecords(v, d, o, n - 1), RecordList(d)[n])

\* analyzeSalesData(data, options) as a whole: what it throws or returns
Analyze(v, d, o) ==
    IF ~DataValid(v, d) THEN [thrown |-> "data", report |-> <<>>]
    ELSE IF ~OptionsValid(o) THEN [thrown |-> "options", report |-> <<>>]
    ELSE [thrown |-> "none",
          report |-> BuildReport(o, FoldRecords(v, d, o, Len(RecordList(d))).stats)]

(***************************************************************************)
(* The state machine of one call of analyzeSalesData.                      *)
(***************************************************************************)
NoBonusCall == [index |-> 0, total |-> 1, profit |-> 0, result |-> 0, done |-> FALSE]

Init ==
    /\ variant \in {"lenient", "strict"}
    /\ pc = "start"
    /\ data = Missing
    /\ options = Options("absent", "absent")
    /\ sellerStats = <<>>
    /\ ri = 0
    /\ calls = <<>>
    /\ report = <<>>
    /\ thrown = "none"
    /\ bonusCall = NoBonusCall

\* the call with arguments d and o, up to the end of the validation and the
\* building of sellerStats
Enter(d, o) ==
    /\ data' = d
    /\ options' = o
    /\ IF ~DataValid(variant, d)
       THEN pc' = "error" /\ thrown' = "data" /\ sellerStats' = sellerStats
       ELSE IF ~OptionsValid(o)
       THEN pc' = "error" /\ thrown' = "options" /\ sellerStats' = sellerStats
       ELSE pc' = "fold" /\ thrown' = "none"
            /\ sellerStats' = MakeStats(d.sellers.elems)
    /\ UNCHANGED <<variant, ri, calls, report, bonusCall>>

\* the arguments are drawn from the inputs of at most MaxSize sellers,
\* records and line items, the inputs of every shape, and the bulk orders
Call ==
    /\ pc = "start"
    /\ \/ \E ns \in 1..MaxSize : \E counts \in ItemCounts(MaxSize - ns) :
          \E heads \in [1..Len(counts) -> (1..(ns + 1)) \X Totals] :
          \E flat \in [1..SumSeq(counts) -> ItemSet] :
          \E rev \in RevenuePolicies :
            LET in == SmallInput(ns, RecordsOf(counts, heads, flat), rev)
            IN  Enter(in.data, in.options)
       \/ \E in \in OtherInputs : Enter(in.data, in.options)

\* one turn of data.purchase_records.forEach
ProcessRecord ==
    /\ pc = "fold"
    /\ ri < Len(RecordList(data))
    /\ LET after == RecordStep(variant, options.calculateRevenue, ProductList(data),
                               [stats |-> sellerStats, calls |-> calls],
                               RecordList(data)[ri + 1])
       IN  sellerStats' = after.stats /\ calls' = after.calls
    /\ ri' = ri + 1
    /\ UNCHANGED <<variant, pc, data, options, report, thrown, bonusCall>>

\* the sort, the bonus and top-products loop, and the return; part_000 sorts
\* sellerStats itself, main.js a copy
Finish ==
    /\ pc = "fold"
    /\ ri = Len(RecordList(data))
    /\ report' = BuildReport(options, sellerStats)
    /\ sellerStats' = IF variant = "strict" THEN SortSellers(sellerStats)
                      ELSE sellerStats
    /\ pc' = "done"
    /\ UNCHANGED <<variant, data, options, ri, calls, thrown, bonusCall>>

Next == Call \/ ProcessRecord \/ Finish

Spec == Init /\ [][Next]_vars

(***************************************************************************)
(* calculateBonusByProfit on its own: one call with arguments from         *)
(* bounded sets.                                                           *)
(***************************************************************************)
ProfitSamples == {-2 * Unit, 0, Unit + 23 * Cent, 4 * Unit}

InitBonus ==
    /\ variant \in {"lenient", "strict"}
    /\ pc = "start"
    /\ data = Missing
    /\ options = Options("absent", "absent")
    /\ sellerStats = <<>>
    /\ ri = 0
    /\ calls = <<>>
    /\ report = <<>>
    /\ thrown = "none"
    /\ bonusCall \in [index : 0..(MaxTotal - 1), total : 1..MaxTotal,
                      profit : ProfitSamples, result : {0}, done : {FALSE}]
    /\ bonusCall.index < bonusCall.total

EvalBonus ==
    /\ ~bonusCall.done
    /\ bonusCall' = [bonusCall EXCEPT
                        !.result = calculateBonusByProfit(bonusCall.index,
                                        bonusCall.total, [profit |-> bonusCall.profit]),
                        !.done = TRUE]
    /\ UNCHANGED <<variant, pc, data, options, sellerStats, ri, calls, report, thrown>>

NextBonus == EvalBonus

SpecBonus == InitBonus /\ [][NextBonus]_vars

(***************************************************************************)
(* Vocabulary of the properties, read off the input alone.                 *)
(***************************************************************************)
Sellers == IF data.kind = "object" /\ data.sellers.kind = "array"
           THEN data.sellers.elems ELSE <<>>
Records == IF data.kind = "object" /\ data.purchase_records.kind = "array"
           THEN data.purchase_records.elems ELSE <<>>
Products == IF data.kind = "object" /\ data.products.kind = "array"
            THEN data.products.elems ELSE <<>>
SellerIds == {Sellers[k].id : k \in 1..Len(Sellers)}
KnownSeller(id) == id \in SellerIds
KnownSku(sku) == \E k \in 1..Len(Products) : Products[k].sku = sku
ProductOf(sku) == Products[CHOOSE k \in 1..Len(Products) : Products[k].sku = sku]
\* the place of seller id in data.sellers
InputPos(id) == CHOOSE k \in 1..Len(Sellers) : Sellers[k].id = id
\* the accumulator of seller id, wherever it stands in sellerStats
Acc(id) == sellerStats[CHOOSE k \in 1..Len(sellerStats) : sellerStats[k].seller_id = id]
\* the line items of a record that name a product of the catalogue
KnownItems(rec) == SelectSeq(rec.items, LAMBDA it : KnownSku(it.sku))
HasUnknownSku(rec) == \E a \in 1..Len(rec.items) : ~KnownSku(rec.items[a].sku)

\* revenue minus cost, summed over a sequence of known line items
RECURSIVE SumProfit(_)
SumProfit(its) ==
    IF its = <<>> THEN 0
    ELSE Revenue(options.calculateRevenue, Head(its), ProductOf(Head(its).sku))
         - ProductOf(Head(its).sku).purchase_price * Head(its).quantity
         + SumProfit(Tail(its))

\* the quantity of one SKU, summed over a sequence of line items
RECURSIVE SumQuantity(_, _)
SumQuantity(its, sku) ==
    IF its = <<>> THEN 0
    ELSE (IF Head(its).sku = sku THEN Head(its).quantity ELSE 0)
         + SumQuantity(Tail(its), sku)

\* the known line items of the first n records booked on seller id, in order
RECURSIVE ItemsOfSeller(_, _)
ItemsOfSeller(id, n) ==
    IF n = 0 THEN <<>>
    ELSE ItemsOfSeller(id, n - 1)
         \o (IF Records[n].seller_id = id THEN KnownItems(Records[n]) ELSE <<>>)

\* the known line items of the first n records that name a known seller
RECURSIVE ItemsOfKnownSellers(_)
ItemsOfKnownSellers(n) ==
    IF n = 0 THEN <<>>
    ELSE ItemsOfKnownSellers(n - 1)
         \o (IF KnownSeller(Records[n].seller_id) THEN KnownItems(Records[n])
             ELSE <<>>)

\* total_amount (a missing one counting 0) summed over the records among the
\* first n whose seller_id is in ids
RECURSIVE SumTotals(_, _)
SumTotals(ids, n) ==
    IF n = 0 THEN 0
    ELSE SumTotals(ids, n - 1)
         + (IF Records[n].seller_id \in ids /\ IsNum(Records[n].total_amount)
            THEN Records[n].total_amount[1] ELSE 0)

\* the quantity a products_sold holds for a SKU, 0 when it has no entry
QuantityIn(sold, sku) ==
    IF \E k \in 1..Len(sold) : sold[k].sku = sku
    THEN sold[CHOOSE k \in 1..Len(sold) : sold[k].sku = sku].quantity
    ELSE 0
SkusIn(sold) == {sold[k].sku : k \in 1..Len(sold)}

\* the input without its k-th purchase record
WithoutRecord(k) ==
    [data EXCEPT !.purchase_records.elems =
        SubSeq(@, 1, k - 1) \o SubSeq(@, k + 1, Len(@))]

(***************************************************************************)
(* C1: the report is the stable descending sort of data.sellers by         *)
(* accumulated profit: one entry per seller, profit[i] >= profit[j] for    *)
(* all positions i < j, and of two sellers with equal accumulated profit   *)
(* the one that is first in data.sellers is first in the report.           *)
(***************************************************************************)
C1_StableDescendingByProfit ==
    pc = "done" =>
        /\ Len(report) = Len(Sellers)
        /\ {report[k].seller_id : k \in 1..Len(report)} = SellerIds
        /\ \A i, j \in 1..Len(report) : i < j =>
            /\ Acc(report[i].seller_id).profit >= Acc(report[j].seller_id).profit
            /\ report[i].profit >= report[j].profit
            /\ Acc(report[i].seller_id).profit = Acc(report[j].seller_id).profit
                => InputPos(report[i].seller_id) < InputPos(report[j].seller_id)

\* a report with a tie, and with a seller ranked above one that precedes it
\* in data.sellers
C1_Witness ==
    /\ pc = "done"
    /\ \E i, j \in 1..Len(report) :
        /\ i < j
        /\ Acc(report[i].seller_id).profit = Acc(report[j].seller_id).profit
    /\ \E i, j \in 1..Len(report) :
        /\ i < j
        /\ Acc(report[i].seller_id).profit > Acc(report[j].seller_id).profit
        /\ InputPos(report[i].seller_id) > InputPos(report[j].seller_id)

(***************************************************************************)
(* C2: calculateBonusByProfit applies its rules in the order index = 0,    *)
(* index < 3, index = total - 1, default: for index in 0..total-1 the      *)
(* result is 15% of profit at index 0, else 10% of profit at index 1 or 2, *)
(* else 0 at the last index, else 5% of profit; with a single seller the   *)
(* result is 15% of profit.                                                *)
(***************************************************************************)
C2_BonusRuleOrder ==
    bonusCall.done =>
        LET i == bonusCall.index
            t == bonusCall.total
            p == bonusCall.profit
            r == bonusCall.result
        IN  /\ i = 0 => r * 100 = p * 15
            /\ i \in {1, 2} => r * 100 = p * 10
            /\ i >= 3 /\ i = t - 1 => r = 0
            /\ i >= 3 /\ i # t - 1 => r * 100 = p * 5
            /\ t = 1 => r * 100 = p * 15

\* a single seller with a profit: the bonus is not 0
C2_Witness ==
    /\ bonusCall.done
    /\ bonusCall.total = 1
    /\ bonusCall.index = 0
    /\ bonusCall.profit # 0
    /\ bonusCall.result # 0

(***************************************************************************)
(* C3, as claimed: for every total >= 2 the bonus at index total - 1 is 0  *)
(* whatever the profit, also when total <= 3.                              *)
(***************************************************************************)
C3_LastPlaceAlwaysZero ==
    (bonusCall.done /\ bonusCall.total >= 2
        /\ bonusCall.index = bonusCall.total - 1)
    => bonusCall.result = 0

(***************************************************************************)
(* C3, amended: for every total >= 4 the bonus at index total - 1 is 0     *)
(* whatever the profit; for total 2 or 3 the last index is 1 or 2, the     *)
(* index < 3 rule comes first and the bonus is 10% of profit.              *)
(***************************************************************************)
C3_LastPlaceZeroFromFourSellers ==
    (bonusCall.done /\ bonusCall.index = bonusCall.total - 1) =>
        /\ bonusCall.total >= 4 => bonusCall.result = 0
        /\ bonusCall.total \in {2, 3}
            => bonusCall.result * 100 = bonusCall.profit * 10

\* the last of four or more sellers, with a profit, gets 0
C3_Witness ==
    /\ bonusCall.done
    /\ bonusCall.total >= 4
    /\ bonusCall.index = bonusCall.total - 1
    /\ bonusCall.profit # 0
    /\ bonusCall.result = 0

(***************************************************************************)
(* C4, as claimed: a purchase record whose seller_id matches no seller     *)
(* changes nothing and raises no error, so the report equals the report of *)
(* the same input with that record removed.                                *)
(***************************************************************************)
C4_ReportAsIfRecordRemoved ==
    pc = "done" =>
        \A k \in 1..Len(Records) :
            ~KnownSeller(Records[k].seller_id) =>
                Analyze(variant, WithoutRecord(k), options)
                    = [thrown |-> "none", report |-> report]

(***************************************************************************)
(* C4, amended: the forEach turn for a purchase record whose seller_id     *)
(* matches no seller leaves every accumulator and the calls of             *)
(* calculateRevenue unchanged and raises no error; and the report equals   *)
(* the report of the same input with that record removed whenever the      *)
(* input without it still passes the validation (part_000 rejects an input *)
(* whose purchase_records is left empty).                                  *)
(***************************************************************************)
C4_UnknownSellerRecordSkipped ==
    /\ [][ (pc = "fold" /\ ri' = ri + 1
                /\ ~KnownSeller(Records[ri + 1].seller_id))
            => (sellerStats' = sellerStats /\ calls' = calls
                /\ pc' = "fold" /\ thrown' = "none") ]_vars
    /\ [](pc = "done" =>
            \A k \in 1..Len(Records) :
                (~KnownSeller(Records[k].seller_id)
                    /\ DataValid(variant, WithoutRecord(k)))
                => Analyze(variant, WithoutRecord(k), options)
                    = [thrown |-> "none", report |-> report])

\* a report of an input that holds a record of an unknown seller with a
\* total and a known line item, next to a record that was booked
C4_Witness ==
    /\ pc = "done"
    /\ \E k \in 1..Len(Records) :
        /\ ~KnownSeller(Records[k].seller_id)
        /\ IsNum(Records[k].total_amount)
        /\ KnownItems(Records[k]) # <<>>
    /\ \E k \in 1..Len(report) : report[k].sales_count > 0

(***************************************************************************)
(* C5: in the forEach turn for a record of a known seller, a line item     *)
(* whose SKU matches no product is the only thing skipped: calculateRevenue*)
(* is invoked for the items with a known SKU only, in order; the seller's  *)
(* profit and per-SKU quantities grow by those items only; sales_count     *)
(* grows by 1 and revenue by the record's total_amount; the other sellers  *)
(* stay as they are.                                                       *)
(***************************************************************************)
C5_OnlyUnknownSkuItemsSkipped ==
    [][ (pc = "fold" /\ ri' = ri + 1 /\ KnownSeller(Records[ri + 1].seller_id)) =>
          LET rec == Records[ri + 1]
              known == KnownItems(rec)
              pos == CHOOSE k \in 1..Len(sellerStats) :
                        sellerStats[k].seller_id = rec.seller_id
              before == sellerStats[pos]
              after == sellerStats'[pos]
          IN  /\ Len(sellerStats') = Len(sellerStats)
              /\ \A k \in 1..Len(sellerStats) : k # pos => sellerStats'[k] = sellerStats[k]
              /\ after.seller_id = before.seller_id
              /\ after.sales_count = before.sales_count + 1
              /\ IsNum(rec.total_amount)
                    => after.revenue = JsAdd(before.revenue, rec.total_amount)
              /\ calls' = calls \o known
              /\ after.profit = before.profit + SumProfit(known)
              /\ SkusIn(after.products_sold)
                    = SkusIn(before.products_sold) \cup {known[a].sku : a \in 1..Len(known)}
              /\ \A sku \in SkusIn(after.products_sold) :
                    QuantityIn(after.products_sold, sku)
                        = QuantityIn(before.products_sold, sku) + SumQuantity(known, sku)
      ]_vars

\* a booked record in which an item of an unknown SKU precedes one of a
\* known SKU
C5_Witness ==
    /\ pc = "fold"
    /\ ri >= 1
    /\ KnownSeller(Records[ri].seller_id)
    /\ IsNum(Records[ri].total_amount)
    /\ \E a, b \in 1..Len(Records[ri].items) :
        /\ a < b
        /\ ~KnownSku(Records[ri].items[a].sku)
        /\ KnownSku(Records[ri].items[b].sku)
    /\ calls # <<>>

(***************************************************************************)
(* C6: for every seller of the report top_products has at most 10 entries, *)
(* each a distinct SKU the seller sold with its cumulative quantity, in    *)
(* non-increasing order of quantity, and no SKU left out has a larger      *)
(* cumulative quantity than one that is in the list.                       *)
(***************************************************************************)
C6_TopProducts ==
    pc = "done" =>
        \A k \in 1..Len(report) :
            LET top == report[k].top_products
                sold == ItemsOfSeller(report[k].seller_id, Len(Records))
                soldSkus == {sold[a].sku : a \in 1..Len(sold)}
            IN  /\ Len(top) <= 10
                /\ \A a, b \in 1..Len(top) : a < b =>
                    /\ top[a].sku # top[b].sku
                    /\ top[a].quantity >= top[b].quantity
                /\ \A a \in 1..Len(top) :
                    /\ top[a].sku \in soldSkus
                    /\ top[a].quantity = SumQuantity(sold, top[a].sku)
                /\ \A sku \in soldSkus \ SkusIn(top) : \A a \in 1..Len(top) :
                    SumQuantity(sold, sku) <= top[a].quantity

\* a seller who sold more than 10 SKUs in differing quantities
C6_Witness ==
    /\ pc = "done"
    /\ \E k \in 1..Len(report) :
        LET top == report[k].top_products
            sold == ItemsOfSeller(report[k].seller_id, Len(Records))
        IN  /\ Len(top) = 10
            /\ Cardinality({sold[a].sku : a \in 1..Len(sold)}) > 10
            /\ top[1].quantity > top[10].quantity

(***************************************************************************)
(* C7: validation fails fast: when data is missing, data.sellers is        *)
(* absent, no array or empty, options is missing, or calculateRevenue or   *)
(* calculateBonus is missing or no function, the call ends with a thrown   *)
(* error, returns no report, and has invoked no policy function and built  *)
(* no accumulator.                                                         *)
(***************************************************************************)
C7_ValidationFailsFast ==
    (/\ pc # "start"
     /\ \/ data.kind = "missing"
        \/ data.sellers.kind # "array"
        \/ Len(data.sellers.elems) = 0
        \/ options.kind = "missing"
        \/ options.calculateRevenue \notin RevenuePolicies
        \/ options.calculateBonus \notin BonusPolicies)
    => /\ pc = "error"
       /\ thrown # "none"
       /\ report = <<>>
       /\ calls = <<>>
       /\ sellerStats = <<>>
       /\ ri = 0

\* a rejected call whose data was in order and held records to process
C7_Witness ==
    /\ pc = "error"
    /\ thrown = "options"
    /\ Len(Sellers) > 0
    /\ Len(Records) > 0
    /\ options.calculateRevenue \in RevenuePolicies
    /\ options.calculateBonus = "other"

(***************************************************************************)
(* C8, as claimed: whenever data.products or data.purchase_records is      *)
(* absent, no array or empty, the call is rejected with the                *)
(* input-validation error and returns no report, even when data.sellers is *)
(* a non-empty array and the options are valid.                            *)
(***************************************************************************)
C8_StrictValidationOnly ==
    (/\ pc \in {"done", "error"}
     /\ data.kind = "object"
     /\ Len(data.sellers.elems) > 0
     /\ options.calculateRevenue \in RevenuePolicies
     /\ options.calculateBonus \in BonusPolicies
     /\ ~NonEmptyArray(data.products) \/ ~NonEmptyArray(data.purchase_records))
    => (pc = "error" /\ thrown = "data" /\ report = <<>>)

(***************************************************************************)
(* C9, as claimed: the revenue of every seller in the report is the sum of *)
(* total_amount over its own records, a missing total_amount counting 0,   *)
(* and the revenues of the report add up to the sum of total_amount over   *)
(* the records of known sellers.                                           *)
(***************************************************************************)
RECURSIVE SumRevenue(_)
SumRevenue(n) ==
    IF n = 0 THEN Num(0) ELSE JsAdd(SumRevenue(n - 1), report[n].revenue)

C9_RevenueConservation ==
    pc = "done" =>
        /\ \A k \in 1..Len(report) :
            report[k].revenue = Num(SumTotals({report[k].seller_id}, Len(Records)))
        /\ SumRevenue(Len(report)) = Num(SumTotals(SellerIds, Len(Records)))

(***************************************************************************)
(* C10: after any number of forEach turns every seller's accumulated       *)
(* profit is the sum, over the line items with a known SKU of its records  *)
(* handled so far, of calculateRevenue(item, product) minus                *)
(* product.purchase_price times item.quantity (0 without such items), and  *)
(* calculateRevenue has been invoked exactly once per such item, in input  *)
(* order.                                                                  *)
(***************************************************************************)
C10_ProfitIsRevenueMinusCost ==
    pc \in {"fold", "done"} =>
        /\ calls = ItemsOfKnownSellers(ri)
        /\ \A id \in SellerIds :
            Acc(id).profit = SumProfit(ItemsOfSeller(id, ri))

\* a report under the caller's own policy, with several invocations and an
\* item of an unknown SKU among the records
C10_Witness ==
    /\ pc = "done"
    /\ options.calculateRevenue = "costPlus"
    /\ Len(calls) >= 2
    /\ \E k \in 1..Len(Records) :
        KnownSeller(Records[k].seller_id) /\ HasUnknownSku(Records[k])
    /\ \E id \in SellerIds : Acc(id).profit # 0

====
